---------------------------- MODULE Spec2Model ----------------------------
(***************************************************************************)
(* Model of convex/files.ts: organization-scoped file records with         *)
(* soft-delete, scheduled purge and per-user favorites.                    *)
(*                                                                         *)
(* Every exported mutation is one action.  A Convex mutation is a          *)
(* transaction: a handler that throws commits none of its writes.  The     *)
(* user document a handler obtains from getUser(ctx) (module ./users) is   *)
(* an input of each call: the users table is written elsewhere, so between *)
(* two calls a user's orgIds may be anything.                              *)
(***************************************************************************)
EXTENDS Naturals, Sequences, FiniteSets, Bags, TLC

\* ------------------------------------------------------------------ bounds
\* Number of File records ever inserted (ids are never reused).
MaxFiles == 2

\* ------------------------------------------------------------ input domains
Users == {"u1", "u2"}
Orgs == {"o1", "o2"}
\* "member" stands for every role that is not "admin".
Roles == {"member", "admin"}
StorageIds == {"s1", "s2"}
Names == {<<"R", "e", "p">>}
Types == {"pdf"}
\* The names and types of the files that are listed with filters.
NamesListed == Names \cup {<<"P", "e", "r">>}
TypesListed == Types \cup {"image"}

\* One element of user.orgIds.
OrgEntries == [orgId : Orgs, role : Roles]

\* The values user.orgIds takes: at most one entry for an organization.
OrgIdLists == {s \in SUBSET OrgEntries : \A a, b \in s : a.orgId = b.orgId => a = b}

\* Doc<"users">, reduced to the fields files.ts reads.
UserDocs == [_id : Users, orgIds : OrgIdLists]

\* The null a handler sees when getUser finds nobody.
null == [_id |-> "null", orgIds |-> {}]

\* What getUser(ctx) can return for a call.
getUser == UserDocs \cup {null}

\* ------------------------------------------------------------ outcomes
OK == "ok"
ErrNoOrgAccess == "You do not have access to this organization."
ErrNoFileAccess == "No access to file."
ErrCannotDelete == "You do not have access to delete this file."
ErrStorageDelete == "ctx.storage.delete rejected"

\* ------------------------------------------------------------------- state
VARIABLES
    files,      \* table "files": _id -> document
    favorites,  \* table "favorites": a bag of documents (their _id left out)
    storage,    \* table "_storage": the storage ids whose blob exists
    nextId,     \* the _id the next inserted file gets
    result      \* the last call: its handler, and "ok" or the error it threw

vars == <<files, favorites, storage, nextId, result>>

FileIds == 1..MaxFiles

\* shouldDelete is an optional field: {} when the document has none.
FileDocs == [name : NamesListed, orgId : Orgs, fileId : StorageIds, type : TypesListed,
             userId : Users, shouldDelete : {{}, {TRUE}, {FALSE}}]

\* JavaScript truthiness of an optional boolean field.
Truthy(field) == TRUE \in field

Init ==
    /\ files = <<>>
    /\ favorites = EmptyBag
    /\ storage = StorageIds
    /\ nextId = 1
    /\ result = [op |-> "none", outcome |-> OK]

\* hasAccessToOrg that only asks for a user document.
hasAccessToOrg_AnyUser(user, orgId) ==
    IF user = null THEN null ELSE user

\* --------------------------------------------------------- access helpers
\* hasAccessToOrg: the user when some entry of user.orgIds names orgId.
hasAccessToOrg(user, orgId) ==
    IF user = null THEN null
    ELSE IF ~(\E item \in user.orgIds : item.orgId = orgId) THEN null
    ELSE user

\* hasAccessToFile without the organization check.
hasAccessToFile_NoOrgCheck(user, fileId) ==
    IF fileId \notin DOMAIN files THEN null ELSE user

\* hasAccessToFile: null for a missing file, else the org check on file.orgId.
hasAccessToFile(user, fileId) ==
    IF fileId \notin DOMAIN files THEN null
    ELSE hasAccessToOrg(user, files[fileId].orgId)

\* canDelete of assertCanDeleteFile.
canDelete(user, file) ==
    \/ file.userId = user._id
    \/ \E org \in user.orgIds : org.orgId = file.orgId /\ org.role = "admin"

\* createFile refusing a name the organization already uses.
createFile_UniqueName(user, name, fileId, orgId, type) ==
    IF \/ hasAccessToOrg(user, orgId) = null
       \/ \E f \in DOMAIN files : files[f].orgId = orgId /\ files[f].name = name
    THEN /\ result' = [op |-> "createFile", outcome |-> ErrNoOrgAccess]
         /\ UNCHANGED <<files, favorites, storage, nextId>>
    ELSE /\ nextId <= MaxFiles
         /\ files' = files @@ (nextId :>
                [name |-> name, orgId |-> orgId, fileId |-> fileId, type |-> type,
                 userId |-> user._id, shouldDelete |-> {}])
         /\ nextId' = nextId + 1
         /\ result' = [op |-> "createFile", outcome |-> OK]
         /\ UNCHANGED <<favorites, storage>>

\* ---------------------------------------------------------------- actions
createFile(user, name, fileId, orgId, type) ==
    IF hasAccessToOrg(user, orgId) = null
    THEN /\ result' = [op |-> "createFile", outcome |-> ErrNoOrgAccess]
         /\ UNCHANGED <<files, favorites, storage, nextId>>
    ELSE /\ nextId <= MaxFiles
         /\ files' = files @@ (nextId :>
                [name |-> name, orgId |-> orgId, fileId |-> fileId, type |-> type,
                 userId |-> user._id, shouldDelete |-> {}])
         /\ nextId' = nextId + 1
         /\ result' = [op |-> "createFile", outcome |-> OK]
         /\ UNCHANGED <<favorites, storage>>

\* deleteFile flipping the flag instead of setting it.
deleteFile_Flip(user, fileId) ==
    IF hasAccessToFile(user, fileId) = null
    THEN /\ result' = [op |-> "deleteFile", outcome |-> ErrNoFileAccess]
         /\ UNCHANGED <<files, favorites, storage, nextId>>
    ELSE IF ~canDelete(user, files[fileId])
    THEN /\ result' = [op |-> "deleteFile", outcome |-> ErrCannotDelete]
         /\ UNCHANGED <<files, favorites, storage, nextId>>
    ELSE /\ files' = [files EXCEPT ![fileId].shouldDelete =
                        IF Truthy(@) THEN {FALSE} ELSE {TRUE}]
         /\ result' = [op |-> "deleteFile", outcome |-> OK]
         /\ UNCHANGED <<favorites, storage, nextId>>

\* deleteFile with the patch written before assertCanDeleteFile, and kept.
deleteFile_PatchFirst(user, fileId) ==
    IF hasAccessToFile(user, fileId) = null
    THEN /\ result' = [op |-> "deleteFile", outcome |-> ErrNoFileAccess]
         /\ UNCHANGED <<files, favorites, storage, nextId>>
    ELSE /\ files' = [files EXCEPT ![fileId].shouldDelete = {TRUE}]
         /\ result' = [op |-> "deleteFile", outcome |->
                IF canDelete(user, files[fileId]) THEN OK ELSE ErrCannotDelete]
         /\ UNCHANGED <<favorites, storage, nextId>>

\* deleteFile deleting the document instead of flagging it.
deleteFile_HardDelete(user, fileId) ==
    IF hasAccessToFile(user, fileId) = null
    THEN /\ result' = [op |-> "deleteFile", outcome |-> ErrNoFileAccess]
         /\ UNCHANGED <<files, favorites, storage, nextId>>
    ELSE IF ~canDelete(user, files[fileId])
    THEN /\ result' = [op |-> "deleteFile", outcome |-> ErrCannotDelete]
         /\ UNCHANGED <<files, favorites, storage, nextId>>
    ELSE /\ files' = [f \in DOMAIN files \ {fileId} |-> files[f]]
         /\ result' = [op |-> "deleteFile", outcome |-> OK]
         /\ UNCHANGED <<favorites, storage, nextId>>

\* ctx.db.patch(fileId, {shouldDelete: value}) behind the two checks.
deleteFile(user, fileId) ==
    IF hasAccessToFile(user, fileId) = null
    THEN /\ result' = [op |-> "deleteFile", outcome |-> ErrNoFileAccess]
         /\ UNCHANGED <<files, favorites, storage, nextId>>
    ELSE IF ~canDelete(user, files[fileId])
    THEN /\ result' = [op |-> "deleteFile", outcome |-> ErrCannotDelete]
         /\ UNCHANGED <<files, favorites, storage, nextId>>
    ELSE /\ files' = [files EXCEPT ![fileId].shouldDelete = {TRUE}]
         /\ result' = [op |-> "deleteFile", outcome |-> OK]
         /\ UNCHANGED <<favorites, storage, nextId>>

\* restoreFile without assertCanDeleteFile.
restoreFile_NoAssert(user, fileId) ==
    IF hasAccessToFile(user, fileId) = null
    THEN /\ result' = [op |-> "restoreFile", outcome |-> ErrNoFileAccess]
         /\ UNCHANGED <<files, favorites, storage, nextId>>
    ELSE /\ files' = [files EXCEPT ![fileId].shouldDelete = {FALSE}]
         /\ result' = [op |-> "restoreFile", outcome |-> OK]
         /\ UNCHANGED <<favorites, storage, nextId>>

\* restoreFile telling a missing file from a refused caller.
restoreFile_NotFound(user, fileId) ==
    IF fileId \notin DOMAIN files
    THEN /\ result' = [op |-> "restoreFile", outcome |-> "File not found."]
         /\ UNCHANGED <<files, favorites, storage, nextId>>
    ELSE IF hasAccessToFile(user, fileId) = null
    THEN /\ result' = [op |-> "restoreFile", outcome |-> ErrNoFileAccess]
         /\ UNCHANGED <<files, favorites, storage, nextId>>
    ELSE IF ~canDelete(user, files[fileId])
    THEN /\ result' = [op |-> "restoreFile", outcome |-> ErrCannotDelete]
         /\ UNCHANGED <<files, favorites, storage, nextId>>
    ELSE /\ files' = [files EXCEPT ![fileId].shouldDelete = {FALSE}]
         /\ result' = [op |-> "restoreFile", outcome |-> OK]
         /\ UNCHANGED <<favorites, storage, nextId>>

\* restoreFile making the caller the owner of the file.
restoreFile_TakesOwnership(user, fileId) ==
    IF hasAccessToFile(user, fileId) = null
    THEN /\ result' = [op |-> "restoreFile", outcome |-> ErrNoFileAccess]
         /\ UNCHANGED <<files, favorites, storage, nextId>>
    ELSE IF ~canDelete(user, files[fileId])
    THEN /\ result' = [op |-> "restoreFile", outcome |-> ErrCannotDelete]
         /\ UNCHANGED <<files, favorites, storage, nextId>>
    ELSE /\ files' = [files EXCEPT ![fileId].shouldDelete = {FALSE},
                                   ![fileId].userId = user._id]
         /\ result' = [op |-> "restoreFile", outcome |-> OK]
         /\ UNCHANGED <<favorites, storage, nextId>>

restoreFile(user, fileId) ==
    IF hasAccessToFile(user, fileId) = null
    THEN /\ result' = [op |-> "restoreFile", outcome |-> ErrNoFileAccess]
         /\ UNCHANGED <<files, favorites, storage, nextId>>
    ELSE IF ~canDelete(user, files[fileId])
    THEN /\ result' = [op |-> "restoreFile", outcome |-> ErrCannotDelete]
         /\ UNCHANGED <<files, favorites, storage, nextId>>
    ELSE /\ files' = [files EXCEPT ![fileId].shouldDelete = {FALSE}]
         /\ result' = [op |-> "restoreFile", outcome |-> OK]
         /\ UNCHANGED <<favorites, storage, nextId>>

\* The favorites document toggleFavorite looks up, inserts or deletes.
favoriteOf(user, fileId) ==
    [fileId |-> fileId, userId |-> user._id, orgId |-> files[fileId].orgId]

\* toggleFavorite that never finds the existing document.
toggleFavorite_AlwaysInsert(user, fileId) ==
    IF hasAccessToFile(user, fileId) = null
    THEN /\ result' = [op |-> "toggleFavorite", outcome |-> ErrNoFileAccess]
         /\ UNCHANGED <<files, favorites, storage, nextId>>
    ELSE /\ favorites' = favorites (+) SetToBag({favoriteOf(user, fileId)})
         /\ result' = [op |-> "toggleFavorite", outcome |-> OK]
         /\ UNCHANGED <<files, storage, nextId>>

\* toggleFavorite behind assertCanDeleteFile, as deleteFile is.
toggleFavorite_AssertCanDelete(user, fileId) ==
    IF hasAccessToFile(user, fileId) = null
    THEN /\ result' = [op |-> "toggleFavorite", outcome |-> ErrNoFileAccess]
         /\ UNCHANGED <<files, favorites, storage, nextId>>
    ELSE IF ~canDelete(user, files[fileId])
    THEN /\ result' = [op |-> "toggleFavorite", outcome |-> ErrCannotDelete]
         /\ UNCHANGED <<files, favorites, storage, nextId>>
    ELSE /\ IF CopiesIn(favoriteOf(user, fileId), favorites) = 0
            THEN favorites' = favorites (+) SetToBag({favoriteOf(user, fileId)})
            ELSE favorites' = favorites (-) SetToBag({favoriteOf(user, fileId)})
         /\ result' = [op |-> "toggleFavorite", outcome |-> OK]
         /\ UNCHANGED <<files, storage, nextId>>

\* toggleFavorite looking up the favorite of the file's owner, not the caller's.
toggleFavorite_LookupOwner(user, fileId) ==
    IF hasAccessToFile(user, fileId) = null
    THEN /\ result' = [op |-> "toggleFavorite", outcome |-> ErrNoFileAccess]
         /\ UNCHANGED <<files, favorites, storage, nextId>>
    ELSE /\ IF CopiesIn([favoriteOf(user, fileId) EXCEPT !.userId = files[fileId].userId],
                        favorites) = 0
            THEN favorites' = favorites (+) SetToBag({favoriteOf(user, fileId)})
            ELSE favorites' = favorites (-) SetToBag({favoriteOf(user, fileId)})
         /\ result' = [op |-> "toggleFavorite", outcome |-> OK]
         /\ UNCHANGED <<files, storage, nextId>>

toggleFavorite(user, fileId) ==
    IF hasAccessToFile(user, fileId) = null
    THEN /\ result' = [op |-> "toggleFavorite", outcome |-> ErrNoFileAccess]
         /\ UNCHANGED <<files, favorites, storage, nextId>>
    ELSE /\ IF CopiesIn(favoriteOf(user, fileId), favorites) = 0
            THEN favorites' = favorites (+) SetToBag({favoriteOf(user, fileId)})
            ELSE favorites' = favorites (-) SetToBag({favoriteOf(user, fileId)})
         /\ result' = [op |-> "toggleFavorite", outcome |-> OK]
         /\ UNCHANGED <<files, storage, nextId>>

\* The sweep's selection as "shouldDelete is not false".
flagged_NotFalse == {f \in DOMAIN files : files[f].shouldDelete # {FALSE}}

\* The index query by_shouldDelete eq true of deleteAllFiles.
flagged == {f \in DOMAIN files : files[f].shouldDelete = {TRUE}}

\* deleteAllFiles: `failing` are the flagged files whose ctx.storage.delete
\* rejects.  Promise.all then rejects, the handler throws and the
\* transaction commits nothing.
deleteAllFiles(failing) ==
    /\ failing \subseteq flagged
    /\ IF failing # {}
       THEN /\ result' = [op |-> "deleteAllFiles", outcome |-> ErrStorageDelete]
            /\ UNCHANGED <<files, favorites, storage, nextId>>
       ELSE /\ files' = [f \in DOMAIN files \ flagged |-> files[f]]
            /\ storage' = storage \ {files[f].fileId : f \in flagged}
            /\ result' = [op |-> "deleteAllFiles", outcome |-> OK]
            /\ UNCHANGED <<favorites, nextId>>

\* ---------------------------------------------------------------- queries
\* String.prototype.toLowerCase on the letters the names use.
toLowerCase(s) ==
    [i \in DOMAIN s |->
        CASE s[i] = "R" -> "r"
          [] s[i] = "E" -> "e"
          [] s[i] = "P" -> "p"
          [] OTHER -> s[i]]

\* String.prototype.includes.
includes(s, q) ==
    \E i \in 0..(Len(s) - Len(q)) : SubSeq(s, i + 1, i + Len(q)) = q

\* collect() of an index query: the ids of S in insertion order.
RECURSIVE collect(_, _)
collect(n, S) ==
    IF n = 0 THEN <<>>
    ELSE IF n \in S THEN Append(collect(n - 1, S), n)
    ELSE collect(n - 1, S)

\* getFiles keeping as live only the files whose shouldDelete is false.
getFiles_StrictFalse(user, orgId, query, favoritesArg, deletedOnly, type) ==
    LET access == hasAccessToOrg(user, orgId)
        byOrgId == collect(nextId - 1, {f \in DOMAIN files : files[f].orgId = orgId})
        byDeleted ==
            IF deletedOnly
            THEN SelectSeq(byOrgId, LAMBDA f : files[f].shouldDelete = {TRUE})
            ELSE SelectSeq(byOrgId, LAMBDA f : files[f].shouldDelete = {FALSE})
    IN  IF access = null THEN <<>> ELSE byDeleted

\* getFiles comparing the name and the query as they are written.
getFiles_CaseSensitive(user, orgId, query, favoritesArg, deletedOnly, type) ==
    LET access == hasAccessToOrg(user, orgId)
        byOrgId == collect(nextId - 1, {f \in DOMAIN files : files[f].orgId = orgId})
        byQuery ==
            IF query # <<>>
            THEN SelectSeq(byOrgId, LAMBDA f : includes(files[f].name, query))
            ELSE byOrgId
        favs == {fav \in BagToSet(favorites) :
                     fav.userId = access._id /\ fav.orgId = orgId}
        byFavorite ==
            IF favoritesArg
            THEN SelectSeq(byQuery, LAMBDA f : \E fav \in favs : fav.fileId = f)
            ELSE byQuery
        byDeleted ==
            IF deletedOnly
            THEN SelectSeq(byFavorite, LAMBDA f : Truthy(files[f].shouldDelete))
            ELSE SelectSeq(byFavorite, LAMBDA f : ~Truthy(files[f].shouldDelete))
        byType ==
            IF type # {}
            THEN SelectSeq(byDeleted, LAMBDA f : files[f].type \in type)
            ELSE byDeleted
    IN  IF access = null THEN <<>> ELSE byType

\* getFiles: the _id of every returned document, in order.  An optional
\* argument left out is the falsy value of its type: <<>> for query, FALSE
\* for favorites and deletedOnly, {} for type.
getFiles(user, orgId, query, favoritesArg, deletedOnly, type) ==
    LET access == hasAccessToOrg(user, orgId)
        byOrgId == collect(nextId - 1, {f \in DOMAIN files : files[f].orgId = orgId})
        byQuery ==
            IF query # <<>>
            THEN SelectSeq(byOrgId, LAMBDA f :
                     includes(toLowerCase(files[f].name), toLowerCase(query)))
            ELSE byOrgId
        favs == {fav \in BagToSet(favorites) :
                     fav.userId = access._id /\ fav.orgId = orgId}
        byFavorite ==
            IF favoritesArg
            THEN SelectSeq(byQuery, LAMBDA f : \E fav \in favs : fav.fileId = f)
            ELSE byQuery
        byDeleted ==
            IF deletedOnly
            THEN SelectSeq(byFavorite, LAMBDA f : Truthy(files[f].shouldDelete))
            ELSE SelectSeq(byFavorite, LAMBDA f : ~Truthy(files[f].shouldDelete))
        byType ==
            IF type # {}
            THEN SelectSeq(byDeleted, LAMBDA f : files[f].type \in type)
            ELSE byDeleted
    IN  IF access = null THEN <<>> ELSE byType

\* getAllFavorites leaving out the favorites for flagged files.
getAllFavorites_LiveOnly(user, orgId) ==
    LET access == hasAccessToOrg(user, orgId)
        hits == {fav \in BagToSet(favorites) :
                     /\ fav.userId = access._id /\ fav.orgId = orgId
                     /\ fav.fileId \in DOMAIN files
                     /\ ~Truthy(files[fav.fileId].shouldDelete)}
    IN  IF access = null THEN EmptyBag ELSE [fav \in hits |-> favorites[fav]]

\* getAllFavorites: the favorites documents of the user in the organization.
getAllFavorites(user, orgId) ==
    LET access == hasAccessToOrg(user, orgId)
        hits == {fav \in BagToSet(favorites) :
                     fav.userId = access._id /\ fav.orgId = orgId}
    IN  IF access = null THEN EmptyBag ELSE [fav \in hits |-> favorites[fav]]

\* The getFiles handler that throws where createFile does.
query_getFiles_Throws(user, orgId) ==
    /\ result' = [op |-> "getFiles", outcome |->
            IF hasAccessToOrg(user, orgId) = null THEN ErrNoOrgAccess ELSE OK]
    /\ UNCHANGED <<files, favorites, storage, nextId>>

\* A call of the query getFiles: it writes nothing and has no throw; the
\* value it returns is getFiles(user, orgId, ...).
query_getFiles(user, orgId) ==
    /\ result' = [op |-> "getFiles", outcome |-> OK]
    /\ UNCHANGED <<files, favorites, storage, nextId>>

\* A call of the query getAllFavorites, returning getAllFavorites(user, orgId).
query_getAllFavorites(user, orgId) ==
    /\ result' = [op |-> "getAllFavorites", outcome |-> OK]
    /\ UNCHANGED <<files, favorites, storage, nextId>>

\* What getUser(ctx) returns when only organization "o1" has members.
getUserOneOrg == {u \in getUser : \A item \in u.orgIds : item.orgId = "o1"}

\* Every mutation; files are created in one organization, from one upload.
Next ==
    \/ \E user \in getUserOneOrg, name \in Names, type \in Types :
          createFile(user, name, "s1", "o1", type)
    \/ \E user \in getUserOneOrg, fileId \in FileIds : deleteFile(user, fileId)
    \/ \E user \in getUserOneOrg, fileId \in FileIds : restoreFile(user, fileId)
    \/ \E user \in getUserOneOrg, fileId \in FileIds : toggleFavorite(user, fileId)
    \/ \E failing \in SUBSET FileIds : deleteAllFiles(failing)

Spec == Init /\ [][Next]_vars

\* The file lifecycle over two organizations, from one upload; no call of
\* toggleFavorite, so the favorites table stays empty.
NextOrgs ==
    \/ \E user \in getUser, name \in Names, orgId \in Orgs, type \in Types :
          createFile(user, name, "s1", orgId, type)
    \/ \E user \in getUser, fileId \in FileIds : deleteFile(user, fileId)
    \/ \E user \in getUser, fileId \in FileIds : restoreFile(user, fileId)
    \/ \E failing \in SUBSET FileIds : deleteAllFiles(failing)

SpecOrgs == Init /\ [][NextOrgs]_vars

\* The file lifecycle in one organization, from two uploads; no call of
\* toggleFavorite.
NextPurge ==
    \/ \E user \in getUserOneOrg, name \in Names, fileId \in StorageIds, type \in Types :
          createFile(user, name, fileId, "o1", type)
    \/ \E user \in getUserOneOrg, fileId \in FileIds : deleteFile(user, fileId)
    \/ \E user \in getUserOneOrg, fileId \in FileIds : restoreFile(user, fileId)
    \/ \E failing \in SUBSET FileIds : deleteAllFiles(failing)

SpecPurge == Init /\ [][NextPurge]_vars

\* Files created and flagged over two organizations; nothing is restored
\* or purged, and no call of toggleFavorite.
NextVisible ==
    \/ \E user \in getUser, name \in Names, orgId \in Orgs, type \in Types :
          createFile(user, name, "s1", orgId, type)
    \/ \E user \in getUser, fileId \in FileIds : deleteFile(user, fileId)

SpecVisible == Init /\ [][NextVisible]_vars

\* Every handler, the queries too, in one organization whose files u1
\* uploads.
NextFavorites ==
    \/ \E user \in {u \in getUserOneOrg : u._id = "u1"}, name \in Names, type \in Types :
          createFile(user, name, "s1", "o1", type)
    \/ \E user \in getUserOneOrg, fileId \in FileIds : deleteFile(user, fileId)
    \/ \E user \in getUserOneOrg, fileId \in FileIds : restoreFile(user, fileId)
    \/ \E user \in getUserOneOrg, fileId \in FileIds : toggleFavorite(user, fileId)
    \/ \E failing \in SUBSET FileIds : deleteAllFiles(failing)
    \/ \E user \in getUserOneOrg : query_getFiles(user, "o1")
    \/ \E user \in getUserOneOrg : query_getAllFavorites(user, "o1")

SpecFavorites == Init /\ [][NextFavorites]_vars

\* What getUser(ctx) returns for the plain members of "o1".
getUserMember == {u \in getUserOneOrg : u.orgIds = {[orgId |-> "o1", role |-> "member"]}}

\* Listing with filters: u1 uploads files of two names and two types to one
\* organization and flags them; u2 toggles favorites.  Every call is by a
\* member and on a file that exists.
NextList ==
    \/ \E user \in {u \in getUserMember : u._id = "u1"},
          name \in NamesListed, type \in TypesListed :
          createFile(user, name, "s1", "o1", type)
    \/ \E user \in {u \in getUserMember : u._id = "u1"}, fileId \in DOMAIN files :
          deleteFile(user, fileId)
    \/ \E user \in {u \in getUserMember : u._id = "u2"}, fileId \in DOMAIN files :
          toggleFavorite(user, fileId)

SpecList == Init /\ [][NextList]_vars

TypeOK ==
    /\ DOMAIN files \subseteq FileIds
    /\ \A f \in DOMAIN files : files[f] \in FileDocs
    /\ storage \subseteq StorageIds
    /\ nextId \in 1..(MaxFiles + 1)

\* ------------------------------------------------------------------ claims
\* The words of the claims, stated on the documents alone.
IsMember(user, orgId) == \E r \in Roles : [orgId |-> orgId, role |-> r] \in user.orgIds
IsAdmin(user, orgId) == [orgId |-> orgId, role |-> "admin"] \in user.orgIds
IsOwner(user, f) == files[f].userId = user._id
CanMutate(user, f) ==
    IsMember(user, files[f].orgId) /\ (IsOwner(user, f) \/ IsAdmin(user, files[f].orgId))

\* The errors a handler throws to deny a caller.
DenialOutcomes == {ErrNoOrgAccess, ErrNoFileAccess, ErrCannotDelete}

\* Those of the handlers that take a fileId.
FileDenialOutcomes == {ErrNoFileAccess, ErrCannotDelete}

\* C1, as stated: deleteFile(A, F) on an existing file succeeds if and only
\* if A owns F or A is an admin of F's organization.
C1_DeleteIffOwnerOrAdmin ==
    [][result'.op = "deleteFile" =>
          \A user \in getUser, f \in DOMAIN files :
              deleteFile(user, f) =>
                  ((result'.outcome = OK) <=>
                      (IsOwner(user, f) \/ IsAdmin(user, files[f].orgId)))]_vars

\* C1, amended: in every reachable state deleteFile(A, F) on an existing
\* file succeeds, setting shouldDelete, if and only if A is a member of F's
\* organization and owns F or is an admin there; in every other case it
\* fails with a denial.
C1_DeleteIffMemberAndOwnerOrAdmin ==
    \A user \in getUser, f \in DOMAIN files :
        ENABLED (/\ deleteFile(user, f)
                 /\ IF CanMutate(user, f)
                    THEN /\ result'.outcome = OK
                         /\ files'[f].shouldDelete = {TRUE}
                    ELSE /\ result'.outcome \in FileDenialOutcomes
                         /\ files' = files)

\* A deleteFile on an existing file was refused for want of membership.
C1_Witness ==
    /\ result = [op |-> "deleteFile", outcome |-> ErrNoFileAccess]
    /\ DOMAIN files = FileIds

\* C2: a createFile, deleteFile, restoreFile or toggleFavorite that fails
\* leaves the files and the favorites tables as they were.
C2_DeniedMutationChangesNothing ==
    [][(/\ result'.op \in {"createFile", "deleteFile", "restoreFile", "toggleFavorite"}
        /\ result'.outcome # OK)
          => (files' = files /\ favorites' = favorites)]_vars

\* A member who is neither owner nor admin was refused, with a flagged file
\* and a favorite in the tables.
C2_Witness ==
    /\ result = [op |-> "restoreFile", outcome |-> ErrCannotDelete]
    /\ \E f \in DOMAIN files : files[f].shouldDelete = {TRUE}
    /\ favorites # EmptyBag

\* A file the sweep is to purge.
IsFlagged(f) == files[f].shouldDelete = {TRUE}

\* C3: when the blob delete of one flagged file fails, the sweep still
\* deletes the blob and the record of every other flagged file.
C3_PurgeOfOthersGoesOn ==
    [][result'.op = "deleteAllFiles" =>
          \A failing \in SUBSET FileIds :
              (failing # {} /\ deleteAllFiles(failing)) =>
                  \A f \in DOMAIN files :
                      (IsFlagged(f) /\ f \notin failing) =>
                          (f \notin DOMAIN files' /\ files[f].fileId \notin storage')]_vars

\* C4: when the blob delete of a flagged file fails, the sweep still deletes
\* that file's record and ends without an error.
C4_RecordGoesThoughBlobFails ==
    [][result'.op = "deleteAllFiles" =>
          \A failing \in SUBSET FileIds :
              (failing # {} /\ deleteAllFiles(failing)) =>
                  /\ \A f \in failing : f \notin DOMAIN files'
                  /\ result'.outcome = OK]_vars

\* C5: a sweep whose blob deletes all succeed leaves no flagged record,
\* has deleted the record and the blob of every file flagged at its start,
\* and keeps every other record as it was.
C5_PurgeRemovesExactlyFlagged ==
    [][(result'.op = "deleteAllFiles" /\ result'.outcome = OK) =>
          /\ \A f \in DOMAIN files' : files'[f].shouldDelete # {TRUE}
          /\ \A f \in DOMAIN files :
                IF IsFlagged(f)
                THEN f \notin DOMAIN files' /\ files[f].fileId \notin storage'
                ELSE f \in DOMAIN files' /\ files'[f] = files[f]]_vars

\* A sweep has purged one file and kept another that never had the flag.
C5_Witness ==
    /\ result = [op |-> "deleteAllFiles", outcome |-> OK]
    /\ storage # StorageIds
    /\ \E f \in DOMAIN files : files[f].shouldDelete = {}
    /\ \E f \in 1..(nextId - 1) : f \notin DOMAIN files

\* C6: for an authorized actor deleteFile always succeeds and leaves
\* shouldDelete true, and on a file already flagged it changes nothing;
\* restoreFile likewise with false.  So a second call in sequence succeeds
\* and leaves the state of the first.
C6_DeleteAndRestoreIdempotent ==
    \A user \in getUser, f \in DOMAIN files :
        CanMutate(user, f) =>
            /\ ENABLED (/\ deleteFile(user, f)
                        /\ result'.outcome = OK
                        /\ files'[f].shouldDelete = {TRUE}
                        /\ files[f].shouldDelete = {TRUE} =>
                              UNCHANGED <<files, favorites, storage, nextId>>)
            /\ ENABLED (/\ restoreFile(user, f)
                        /\ result'.outcome = OK
                        /\ files'[f].shouldDelete = {FALSE}
                        /\ files[f].shouldDelete = {FALSE} =>
                              UNCHANGED <<files, favorites, storage, nextId>>)

\* A deleteFile has succeeded and its file is flagged: the state a second
\* deleteFile starts from.
C6_Witness ==
    /\ result = [op |-> "deleteFile", outcome |-> OK]
    /\ \E f \in DOMAIN files : files[f].shouldDelete = {TRUE}

\* The Favorite record of a user and a file.
FavoriteKey(user, f) == [fileId |-> f, userId |-> user._id, orgId |-> files[f].orgId]

\* C7: for an actor with access to the file, toggleFavorite succeeds; from
\* no Favorite record of (A, F) it leaves exactly one, from one it leaves
\* none, and every other Favorite record stays.  Two calls in a row thus
\* restore the records of (A, F).
C7_ToggleIsItsOwnInverse ==
    \A user \in getUser, f \in DOMAIN files :
        IsMember(user, files[f].orgId) =>
            LET key == FavoriteKey(user, f)
                one == SetToBag({key})
            IN  /\ CopiesIn(key, favorites) \in {0, 1}
                /\ ENABLED (/\ toggleFavorite(user, f)
                            /\ result'.outcome = OK
                            /\ IF CopiesIn(key, favorites) = 0
                               THEN /\ favorites' = favorites (+) one
                                    /\ CopiesIn(key, favorites') = 1
                               ELSE /\ favorites' (+) one = favorites
                                    /\ CopiesIn(key, favorites') = 0)

\* A toggleFavorite has taken the last Favorite record away again.
C7_Witness ==
    /\ result = [op |-> "toggleFavorite", outcome |-> OK]
    /\ favorites = EmptyBag
    /\ DOMAIN files # {}

\* The set of the elements of a sequence.
Range(seq) == {seq[i] : i \in DOMAIN seq}

\* C8: for a member of organization O and no other filter, the files
\* getFiles returns with deletedOnly and those it returns without are
\* disjoint and together are all the files of O, each listed once.
C8_DeletedAndLivePartition ==
    \A user \in getUser, orgId \in Orgs :
        IsMember(user, orgId) =>
            LET deleted == getFiles(user, orgId, <<>>, FALSE, TRUE, {})
                live == getFiles(user, orgId, <<>>, FALSE, FALSE, {})
            IN  /\ Range(deleted) \cap Range(live) = {}
                /\ Range(deleted) \cup Range(live) =
                       {f \in DOMAIN files : files[f].orgId = orgId}
                /\ Len(deleted) = Cardinality(Range(deleted))
                /\ Len(live) = Cardinality(Range(live))

\* An organization holds a file just created, with no shouldDelete at all,
\* next to a flagged one.
C8_Witness ==
    \E f, g \in DOMAIN files :
        /\ files[f].orgId = files[g].orgId
        /\ files[f].shouldDelete = {}
        /\ files[g].shouldDelete = {TRUE}

C10_RestoreAuthorizedAsDelete ==
    \A user \in getUser, f \in DOMAIN files :
        LET deleteSucceeds == ENABLED (deleteFile(user, f) /\ result'.outcome = OK)
        IN  /\ deleteSucceeds <=> CanMutate(user, f)
            /\ ENABLED (/\ restoreFile(user, f)
                        /\ IF deleteSucceeds
                           THEN /\ result'.outcome = OK
                                /\ files' = [files EXCEPT ![f].shouldDelete = {FALSE}]
                           ELSE /\ result'.outcome \in FileDenialOutcomes
                                /\ files' = files)

\* A restoreFile has succeeded and left a file with shouldDelete false.
C10_Witness ==
    /\ result = [op |-> "restoreFile", outcome |-> OK]
    /\ \E f \in DOMAIN files : files[f].shouldDelete = {FALSE}
\* The optional arguments of getFiles the claims call it with.
QueryArgs == {<<>>, <<"r", "E">>}
TypeArgs == {{}} \cup {{t} : t \in TypesListed}

\* C11: whatever the filters, getFiles(A, O) returns only files whose orgId
\* is O, and returns nothing when A is no user or has no entry for O in
\* orgIds, also when A created files of O.
C11_VisibleOnlyToMembers ==
    \A user \in getUser, orgId \in Orgs, query \in QueryArgs,
       favoritesArg \in BOOLEAN, deletedOnly \in BOOLEAN, type \in TypeArgs :
        LET returned == getFiles(user, orgId, query, favoritesArg, deletedOnly, type)
        IN  IF user = null \/ ~IsMember(user, orgId)
            THEN returned = <<>>
            ELSE \A f \in Range(returned) : f \in DOMAIN files /\ files[f].orgId = orgId

\* u1 created a live file in o1 and one in o2; as a member of o2 alone u1
\* is shown the second and nothing of o1.
C11_Witness ==
    \E f, g \in DOMAIN files :
        LET u1 == [_id |-> "u1", orgIds |-> {[orgId |-> "o2", role |-> "member"]}]
        IN  /\ files[f].orgId = "o1" /\ files[f].userId = "u1"
            /\ files[g].orgId = "o2" /\ files[g].userId = "u1"
            /\ ~Truthy(files[f].shouldDelete)
            /\ getFiles(u1, "o1", <<>>, FALSE, FALSE, {}) = <<>>
            /\ getFiles(u1, "o2", <<>>, FALSE, FALSE, {}) = <<g>>

\* C12: for an actor who is no user or has no entry for O in orgIds,
\* getFiles and getAllFavorites return the empty sequence, and the call
\* ends without an error.
C12_ReadsDegradeToEmpty ==
    \A user \in getUser, orgId \in Orgs :
        (user = null \/ ~IsMember(user, orgId)) =>
            /\ \A deletedOnly \in BOOLEAN :
                   getFiles(user, orgId, <<>>, FALSE, deletedOnly, {}) = <<>>
            /\ getAllFavorites(user, orgId) = EmptyBag
            /\ ENABLED (query_getFiles(user, orgId) /\ result'.outcome = OK)
            /\ ENABLED (query_getAllFavorites(user, orgId) /\ result'.outcome = OK)

\* A query has ended while o1 holds a live file and a favorite of u2, and
\* u2 without any membership is shown neither.
C12_Witness ==
    LET u2 == [_id |-> "u2", orgIds |-> {}]
    IN  /\ result.op \in {"getFiles", "getAllFavorites"}
        /\ \E f \in DOMAIN files : files[f].orgId = "o1" /\ ~Truthy(files[f].shouldDelete)
        /\ \E fav \in BagToSet(favorites) : fav.userId = "u2" /\ fav.orgId = "o1"
        /\ getFiles(u2, "o1", <<>>, FALSE, FALSE, {}) = <<>>
        /\ getAllFavorites(u2, "o1") = EmptyBag

\* C13, as stated: the File record a successful createFile adds has
\* shouldDelete false.
C13_CreatedWithShouldDeleteFalse ==
    [][(result'.op = "createFile" /\ result'.outcome = OK)
          => \E new \in DOMAIN files' \ DOMAIN files :
                 files'[new].shouldDelete = {FALSE}]_vars

\* C13: while a record can still be inserted, createFile by a member of the
\* requested organization succeeds, also when the organization has a file
\* of that name, and adds exactly one File record: it has no shouldDelete
\* value, its userId is the actor, its orgId the requested organization,
\* and every other record stays as it was.  For anyone else it fails and
\* adds nothing.
C13_CreateAddsOneUnflaggedFile ==
    \A user \in getUser, orgId \in Orgs, name \in Names, type \in Types :
        nextId <= MaxFiles =>
            ENABLED (/\ createFile(user, name, "s1", orgId, type)
                     /\ IF IsMember(user, orgId)
                        THEN /\ result'.outcome = OK
                             /\ \E new \in FileIds \ DOMAIN files :
                                   /\ DOMAIN files' = DOMAIN files \cup {new}
                                   /\ files'[new] =
                                        [name |-> name, orgId |-> orgId, fileId |-> "s1",
                                         type |-> type, userId |-> user._id,
                                         shouldDelete |-> {}]
                             /\ \A f \in DOMAIN files : files'[f] = files[f]
                        ELSE /\ result'.outcome = ErrNoOrgAccess
                             /\ files' = files)

\* createFile has just added a second file of the same name to an
\* organization.
C13_Witness ==
    /\ result = [op |-> "createFile", outcome |-> OK]
    /\ \E f, g \in DOMAIN files :
          /\ f # g
          /\ files[f].orgId = files[g].orgId
          /\ files[f].name = files[g].name
          /\ files[g].shouldDelete = {}

\* C14: toggleFavorite(A, F) succeeds, and changes the favorites, for every
\* user A with an entry for F's organization in orgIds, whoever owns F,
\* whatever the role and whether or not F is flagged; it fails, changing
\* nothing, exactly when A is no user, has no such entry, or F has no record.
C14_ToggleNeedsOnlyMembership ==
    \A user \in getUser, f \in FileIds :
        ENABLED (/\ toggleFavorite(user, f)
                 /\ IF f \in DOMAIN files /\ IsMember(user, files[f].orgId)
                    THEN /\ result'.outcome = OK
                         /\ favorites' # favorites
                    ELSE /\ result'.outcome = ErrNoFileAccess
                         /\ favorites' = favorites)

\* toggleFavorite has ended well while u2 holds a favorite for a flagged
\* file that u1 owns.
C14_Witness ==
    /\ result = [op |-> "toggleFavorite", outcome |-> OK]
    /\ \E f \in DOMAIN files :
          /\ files[f].userId = "u1"
          /\ files[f].shouldDelete = {TRUE}
          /\ CopiesIn(FavoriteKey([_id |-> "u2", orgIds |-> {}], f), favorites) = 1

\* Two letters that differ at most in case.
SameLetter(a, b) ==
    \/ a = b
    \/ (a = "R" /\ b = "r") \/ (a = "r" /\ b = "R")
    \/ (a = "E" /\ b = "e") \/ (a = "e" /\ b = "E")
    \/ (a = "P" /\ b = "p") \/ (a = "p" /\ b = "P")

\* The name contains the query, case aside.
ContainsIgnoringCase(name, query) ==
    \E i \in 0..(Len(name) - Len(query)) :
        \A j \in 1..Len(query) : SameLetter(name[i + j], query[j])

\* C15: for a member A of O, getFiles returns, each once, exactly the files
\* of O that pass every filter given: the name contains the query whatever
\* the case, A has a favorite for the file when favorites is set, the file
\* is flagged when deletedOnly is set and is not flagged otherwise, and the
\* type is the one asked for.
C15_FiltersComposeByAnd ==
    \A user \in getUserOneOrg, orgId \in Orgs, query \in QueryArgs,
       favoritesArg \in BOOLEAN, deletedOnly \in BOOLEAN, type \in TypeArgs :
        IsMember(user, orgId) =>
            LET returned == getFiles(user, orgId, query, favoritesArg, deletedOnly, type)
            IN  /\ Range(returned) =
                     {f \in DOMAIN files :
                         /\ files[f].orgId = orgId
                         /\ query # <<>> => ContainsIgnoringCase(files[f].name, query)
                         /\ favoritesArg => CopiesIn(FavoriteKey(user, f), favorites) > 0
                         /\ deletedOnly <=> files[f].shouldDelete = {TRUE}
                         /\ type # {} => files[f].type \in type}
                /\ Len(returned) = Cardinality(Range(returned))

\* Of two live pdf files named "Rep", u2 has a favorite for one: asked for
\* favorite live pdf files containing "rE", u2 gets that one and u1 none;
\* the favorites filter apart, both get the two.
C15_Witness ==
    \E f, g \in DOMAIN files :
        LET u1 == [_id |-> "u1", orgIds |-> {[orgId |-> "o1", role |-> "member"]}]
            u2 == [_id |-> "u2", orgIds |-> {[orgId |-> "o1", role |-> "admin"]}]
        IN  /\ f # g
            /\ files[g].name = <<"R", "e", "p">> /\ files[g].type = "pdf"
            /\ getFiles(u2, "o1", <<"r", "E">>, TRUE, FALSE, {"pdf"}) = <<f>>
            /\ getFiles(u1, "o1", <<"r", "E">>, TRUE, FALSE, {"pdf"}) = <<>>
            /\ Range(getFiles(u1, "o1", <<"r", "E">>, FALSE, FALSE, {"pdf"})) = {f, g}
\* C16: in every reachable state the favorites table holds at most one
\* document for each pair of a userId and a fileId.
C16_OneFavoritePerUserAndFile ==
    \A userId \in Users, fileId \in FileIds :
        LET same == {fav \in BagToSet(favorites) :
                        fav.userId = userId /\ fav.fileId = fileId}
        IN  /\ Cardinality(same) <= 1
            /\ \A fav \in same : CopiesIn(fav, favorites) = 1

\* After a toggleFavorite, u1 and u2 each hold a favorite for one file.
C16_Witness ==
    /\ result = [op |-> "toggleFavorite", outcome |-> OK]
    /\ \E fileId \in FileIds :
          \A userId \in Users :
              \E fav \in BagToSet(favorites) :
                  fav.userId = userId /\ fav.fileId = fileId

\* The ids of the File records that were inserted and are gone.
Gone == {f \in 1..(nextId - 1) : f \notin DOMAIN files}

\* C17: a File record goes only in a step of deleteAllFiles and only if its
\* shouldDelete was true before the step; a record that is gone stays gone;
\* and deleteFile, restoreFile and toggleFavorite on its id fail for every
\* caller, changing nothing.
C17_RemovedOnlyByPurgeForGood ==
    /\ [][/\ \A f \in DOMAIN files \ DOMAIN files' :
                /\ result'.op = "deleteAllFiles"
                /\ files[f].shouldDelete = {TRUE}
          /\ \A f \in Gone : f \notin DOMAIN files']_vars
    /\ [](\A user \in getUser, f \in Gone :
             /\ ENABLED (/\ deleteFile(user, f)
                         /\ result'.outcome = ErrNoFileAccess
                         /\ files' = files /\ favorites' = favorites)
             /\ ENABLED (/\ restoreFile(user, f)
                         /\ result'.outcome = ErrNoFileAccess
                         /\ files' = files /\ favorites' = favorites)
             /\ ENABLED (/\ toggleFavorite(user, f)
                         /\ result'.outcome = ErrNoFileAccess
                         /\ files' = files /\ favorites' = favorites))

\* A call on the id of a purged file has failed; an older file, not flagged
\* when the sweep ran, is still there.
C17_Witness ==
    /\ result.op \in {"deleteFile", "restoreFile", "toggleFavorite"}
    /\ result.outcome = ErrNoFileAccess
    /\ \E f \in Gone, g \in DOMAIN files : g < f /\ ~Truthy(files[g].shouldDelete)

\* C18: in every step, a File record that is there before and after keeps
\* its orgId, userId, name, type and storage id; shouldDelete is the only
\* field of it that may differ.
C18_OnlyShouldDeleteChanges ==
    [][\A f \in DOMAIN files \cap DOMAIN files' :
          /\ files'[f].orgId = files[f].orgId
          /\ files'[f].userId = files[f].userId
          /\ files'[f].name = files[f].name
          /\ files'[f].type = files[f].type
          /\ files'[f].fileId = files[f].fileId
          /\ DOMAIN files'[f] = DOMAIN files[f]]_vars

\* A file that has a favorite has been flagged and restored, while another
\* was created.
C18_Witness ==
    /\ result = [op |-> "restoreFile", outcome |-> OK]
    /\ \E f, g \in DOMAIN files :
          /\ files[f].shouldDelete = {FALSE}
          /\ f < g
          /\ \E fav \in BagToSet(favorites) : fav.fileId = f

\* C19: a step of deleteFile or restoreFile leaves the favorites table as it
\* was, a step of toggleFavorite leaves every shouldDelete as it was, and
\* for a member A of O getAllFavorites returns the favorites documents whose
\* userId is A and orgId is O, all of them and no other, whether or not the
\* file is flagged.
C19_FavoritesApartFromDeleteState ==
    /\ [][/\ result'.op \in {"deleteFile", "restoreFile"} => favorites' = favorites
          /\ result'.op = "toggleFavorite" =>
                /\ DOMAIN files' = DOMAIN files
                /\ \A f \in DOMAIN files : files'[f].shouldDelete = files[f].shouldDelete]_vars
    /\ [](\A user \in getUser, orgId \in Orgs :
             IsMember(user, orgId) =>
                 LET returned == getAllFavorites(user, orgId)
                 IN  /\ \A fav \in BagToSet(favorites) :
                            (fav.userId = user._id /\ fav.orgId = orgId) =>
                                CopiesIn(fav, returned) = CopiesIn(fav, favorites)
                     /\ \A fav \in BagToSet(returned) :
                            fav.userId = user._id /\ fav.orgId = orgId)

\* deleteFile has flagged a file that u2 holds a favorite for, and
\* getAllFavorites still returns that favorite to u2.
C19_Witness ==
    /\ result = [op |-> "deleteFile", outcome |-> OK]
    /\ \E f \in DOMAIN files :
          LET u2 == [_id |-> "u2", orgIds |-> {[orgId |-> "o1", role |-> "member"]}]
          IN  /\ files[f].shouldDelete = {TRUE}
              /\ CopiesIn(FavoriteKey(u2, f), favorites) = 1
              /\ CopiesIn(FavoriteKey(u2, f), getAllFavorites(u2, "o1")) = 1

\* C20: when a call of getAllFavorites has ended, no favorite that
\* getAllFavorites returns names a fileId without a File record, and
\* getFiles with favorites set returns no file without a record.
C20_NoDanglingFavoriteIsReturned ==
    result.op = "getAllFavorites" =>
        \A user \in getUser, orgId \in Orgs :
            /\ \A fav \in BagToSet(getAllFavorites(user, orgId)) :
                   fav.fileId \in DOMAIN files
            /\ \A deletedOnly \in BOOLEAN :
                   \A f \in Range(getFiles(user, orgId, <<>>, TRUE, deletedOnly, {})) :
                       f \in DOMAIN files

=============================================================================
